---- MODULE Spec2Model ----
(***************************************************************************)
(* Model of the mechanical-tension analysis pipeline of the HIM backend:   *)
(* RepSegmenter (services/rep_segmenter.py), VelocityAnalyzer              *)
(* (services/velocity_analyzer.py), TensionScorer                          *)
(* (services/tension_scorer.py) and the analyze_workout request            *)
(* (api/routes/workouts.py).                                               *)
(*                                                                         *)
(* Numbers.  The code computes on Python floats.  The model computes on    *)
(* exact rationals [n, d] (d > 0, lowest terms).  Landmark coordinates are *)
(* integers in tenths of the normalised image size (Coord converts), and   *)
(* timestamps are rationals in seconds.  Python indices are 0-based and are kept 0-based in the    *)
(* model's records (start_frame, end_frame, rep_start); a Python list is a *)
(* TLA+ sequence, so Python's xs[k] is xs[k + 1] here.                     *)
(***************************************************************************)
EXTENDS Integers, Sequences, FiniteSets, TLC

(***************************************************************************)
(* Exact rational arithmetic (stands for Python float arithmetic).         *)
(***************************************************************************)
Abs(x) == IF x < 0 THEN 0 - x ELSE x

RECURSIVE GCD(_, _)
GCD(a, b) == IF b = 0 THEN a ELSE GCD(b, a % b)

Rat(n, d) ==
    LET g == GCD(Abs(n), Abs(d))
        s == IF d < 0 THEN 0 - 1 ELSE 1
    IN  [n |-> (s * n) \div g, d |-> (s * d) \div g]

RInt(k) == [n |-> k, d |-> 1]
RAdd(a, b) == Rat(a.n * b.d + b.n * a.d, a.d * b.d)
RSub(a, b) == Rat(a.n * b.d - b.n * a.d, a.d * b.d)
RMul(a, b) == Rat(a.n * b.n, a.d * b.d)
RDiv(a, b) == Rat(a.n * b.d, a.d * b.n)
RLt(a, b) == a.n * b.d < b.n * a.d
RLe(a, b) == a.n * b.d <= b.n * a.d
RMin(a, b) == IF RLe(a, b) THEN a ELSE b
RMax(a, b) == IF RLe(a, b) THEN b ELSE a
RAbs(a) == [n |-> Abs(a.n), d |-> a.d]

RECURSIVE RSum(_)
RSum(xs) == IF xs = <<>> THEN RInt(0) ELSE RAdd(Head(xs), RSum(Tail(xs)))

\* np.mean of a non-empty list
Mean(xs) == RDiv(RSum(xs), RInt(Len(xs)))

(***************************************************************************)
(* Python's None.  An optional number is a rational or NoneVal (d = 0); an *)
(* optional index is a natural or NoneIdx.                                 *)
(***************************************************************************)
NoneVal == [n |-> 0, d |-> 0]
IsNone(a) == a.d = 0
NoneIdx == 0 - 1

(***************************************************************************)
(* RepSegmenter.exercise_configs and the exercise-name lookup.             *)
(***************************************************************************)
\* str.lower() on the exercise names the model draws from
Lower(name) ==
    CASE name = "Squat" -> "squat"
      [] name = "BENCH" -> "bench"
      [] name = "Curl" -> "curl"
      [] name = "Deadlift" -> "deadlift"
      [] name = ".MOV" -> ".mov"
      [] name = ".MP4" -> ".mp4"
      [] OTHER -> name

exercise_configs ==
    [squat |-> [angle_joints |-> << <<"hip", "knee", "ankle">>,
                                    <<"shoulder", "hip", "knee">> >>,
                bottom_threshold |-> Rat(3, 10),
                top_threshold |-> Rat(7, 10)],
     bench |-> [angle_joints |-> << <<"shoulder", "elbow", "wrist">>,
                                    <<"hip", "shoulder", "elbow">> >>,
                bottom_threshold |-> Rat(2, 10),
                top_threshold |-> Rat(8, 10)],
     curl  |-> [angle_joints |-> << <<"shoulder", "elbow", "wrist">> >>,
                bottom_threshold |-> Rat(15, 100),
                top_threshold |-> Rat(85, 100)]]

\* ConfigOf without exercise_name.lower()
ConfigOfCaseSensitive(exercise_name) ==
    IF exercise_name \in DOMAIN exercise_configs
    THEN exercise_configs[exercise_name]
    ELSE exercise_configs["squat"]

\* segment_reps, lines 53-56: config lookup with the squat default
ConfigOf(exercise_name) ==
    IF Lower(exercise_name) \in DOMAIN exercise_configs
    THEN exercise_configs[Lower(exercise_name)]
    ELSE exercise_configs["squat"]

(***************************************************************************)
(* Frames.  A frame is the dictionary VideoProcessor.process_video builds: *)
(* [frame_number, timestamp, keypoints, has_pose].  The keypoints field    *)
(* holds the name of a pose; Keypoints(name) is the landmark dictionary    *)
(* (landmark name -> [x, y]) and the pose "None" is Python's None.         *)
(***************************************************************************)
Pt(px, py) == [x |-> px, y |-> py]

\* a landmark coordinate as a number: the grid is in tenths
Coord(c) == Rat(c, 10)

\* one side's six landmarks under the prefix side ("left_" or "right_")
Side(side, shoulder, elbow, wrist, hip, knee, ankle) ==
    LET names == <<"shoulder", "elbow", "wrist", "hip", "knee", "ankle">>
        pts   == <<shoulder, elbow, wrist, hip, knee, ankle>>
    IN  [k \in {side \o names[j] : j \in 1..6} |->
            pts[CHOOSE j \in 1..6 : side \o names[j] = k]]

\* every joint triple straight (180 degrees)
ExtendedSide(side) ==
    Side(side, Pt(5, 2), Pt(5, 1), Pt(5, 0), Pt(5, 5), Pt(5, 8), Pt(5, 9))
\* every joint triple at 90 degrees
MidSide(side) ==
    Side(side, Pt(2, 6), Pt(2, 4), Pt(3, 4), Pt(5, 6), Pt(5, 8), Pt(7, 8))
\* every joint triple at 45 degrees
FlexedSide(side) ==
    Side(side, Pt(6, 7), Pt(6, 9), Pt(10, 5), Pt(5, 8), Pt(5, 7), Pt(6, 8))
\* every joint triple folded shut (0 degrees)
FoldedSide(side) ==
    Side(side, Pt(5, 4), Pt(5, 6), Pt(5, 5), Pt(5, 9), Pt(5, 7), Pt(5, 8))
\* every landmark at the same point: all angle vectors have length zero
DegenerateSide(side) ==
    Side(side, Pt(5, 5), Pt(5, 5), Pt(5, 5), Pt(5, 5), Pt(5, 5), Pt(5, 5))

Keypoints(pose) ==
    CASE pose = "Extended"   -> ExtendedSide("left_")
      [] pose = "Mid"        -> MidSide("left_")
      [] pose = "Flexed"     -> FlexedSide("left_")
      [] pose = "Folded"     -> FoldedSide("left_")
      [] pose = "Degenerate" -> DegenerateSide("left_")
      [] pose = "Lunge"      -> ExtendedSide("left_") @@ FlexedSide("right_")
      [] pose = "Partial"    -> [k \in {"left_hip", "left_knee"} |->
                                    IF k = "left_hip" THEN Pt(5, 5) ELSE Pt(5, 7)]

\* Python truthiness of frame.get("keypoints"): None is falsy
HasKeypoints(frame) == frame.keypoints # "None"

(***************************************************************************)
(* RepSegmenter._calculate_joint_angle: the angle at point2 in degrees.    *)
(* cos = dot / (|v1| |v2| + 1e-8), clipped, then arccos.  A zero-length    *)
(* vector gives dot = 0 and a denominator of 1e-8, so cos = 0 and the      *)
(* result is 90 degrees: nothing is raised and None is not returned.  For  *)
(* the other triples the model returns the exact angle (the 1e-8 shifts it *)
(* by less than 0.01 degree), for the angles the poses above produce.      *)
(***************************************************************************)
_calculate_joint_angle(point1, point2, point3) ==
    LET v1x == point1.x - point2.x
        v1y == point1.y - point2.y
        v2x == point3.x - point2.x
        v2y == point3.y - point2.y
        dot == v1x * v2x + v1y * v2y
        nn  == (v1x * v1x + v1y * v1y) * (v2x * v2x + v2y * v2y)
    IN  CASE dot = 0 -> 90
          [] dot # 0 /\ dot * dot = nn -> IF dot > 0 THEN 0 ELSE 180
          [] dot # 0 /\ 2 * dot * dot = nn -> IF dot > 0 THEN 45 ELSE 135

(***************************************************************************)
(* RepSegmenter._calculate_angles: one normalised angle, or None, per      *)
(* frame.                                                                  *)
(***************************************************************************)
\* lines 82-97: the angles of the triples whose three landmarks are present,
\* in the order of config["angle_joints"] and, within a triple, left then right
RECURSIVE AngleValues(_, _)
AngleValues(keypoints, angle_joints) ==
    IF angle_joints = <<>> THEN <<>>
    ELSE LET t == Head(angle_joints)
             OneSide(side) ==
                 IF {side \o t[1], side \o t[2], side \o t[3]} \subseteq DOMAIN keypoints
                 THEN << _calculate_joint_angle(keypoints[side \o t[1]],
                                                keypoints[side \o t[2]],
                                                keypoints[side \o t[3]]) >>
                 ELSE <<>>
         IN  OneSide("left_") \o OneSide("right_")
                 \o AngleValues(keypoints, Tail(angle_joints))

\* FrameAngle with a frame without any computable triple coerced to angle 0
FrameAngleZero(frame, config) ==
    IF ~frame.has_pose \/ ~HasKeypoints(frame) THEN RInt(0)
    ELSE LET angle_values == AngleValues(Keypoints(frame.keypoints), config.angle_joints)
         IN  IF angle_values # <<>>
             THEN RDiv(Mean([j \in 1..Len(angle_values) |-> RInt(angle_values[j])]),
                       RInt(180))
             ELSE RInt(0)

\* lines 75-106 for one frame
FrameAngle(frame, config) ==
    IF ~frame.has_pose \/ ~HasKeypoints(frame) THEN NoneVal
    ELSE LET angle_values == AngleValues(Keypoints(frame.keypoints), config.angle_joints)
         IN  IF angle_values # <<>>
             THEN RDiv(Mean([j \in 1..Len(angle_values) |-> RInt(angle_values[j])]),
                       RInt(180))
             ELSE NoneVal

_calculate_angles(frame_data, config) ==
    [k \in 1..Len(frame_data) |-> FrameAngle(frame_data[k], config)]

(***************************************************************************)
(* RepSegmenter._smooth_angles: centred moving average over the present    *)
(* samples of the window; a missing sample stays missing.                  *)
(***************************************************************************)
SmoothWindow == 5

Max2(a, b) == IF a >= b THEN a ELSE b
Min2(a, b) == IF a <= b THEN a ELSE b

\* lines 202-215 for the 0-based index i
SmoothAngleAt(angles, i, window) ==
    IF IsNone(angles[i + 1]) THEN NoneVal
    ELSE LET lo == Max2(0, i - window \div 2)
             hi == Min2(Len(angles), i + window \div 2 + 1)
             window_angles ==
                 SelectSeq([j \in 1..(hi - lo) |-> angles[lo + j]],
                           LAMBDA a : ~IsNone(a))
         IN  IF window_angles # <<>> THEN Mean(window_angles) ELSE NoneVal

_smooth_angles(angles) ==
    [k \in 1..Len(angles) |-> SmoothAngleAt(angles, k - 1, SmoothWindow)]

(***************************************************************************)
(* RepSegmenter._find_rep_boundaries: the threshold state machine.  The    *)
(* loop's local state is [in_rep, rep_start, direction, reps]; direction   *)
(* is "None", "down" or "up".                                              *)
(***************************************************************************)
\* RepDict numbering the reps from 0
RepDictZeroBased(reps, start_frame, end_frame, frame_data, stop) ==
    [rep_number  |-> Len(reps),
     start_frame |-> start_frame,
     end_frame   |-> end_frame,
     start_time  |-> frame_data[start_frame + 1].timestamp,
     end_time    |-> frame_data[end_frame + 1].timestamp,
     frames      |-> SubSeq(frame_data, start_frame + 1, stop)]

\* the rep dictionary of lines 173-180 and 187-194; frames is a Python slice
\* frame_data[start:stop], stop exclusive
RepDict(reps, start_frame, end_frame, frame_data, stop) ==
    [rep_number  |-> Len(reps) + 1,
     start_frame |-> start_frame,
     end_frame   |-> end_frame,
     start_time  |-> frame_data[start_frame + 1].timestamp,
     end_time    |-> frame_data[end_frame + 1].timestamp,
     frames      |-> SubSeq(frame_data, start_frame + 1, stop)]

LoopInit == [in_rep |-> FALSE, rep_start |-> NoneIdx, direction |-> "None", reps |-> <<>>]

\* ScanStep opening a rep at angle <= top_threshold instead of angle < top_threshold
ScanStepLoose(st, i, angle, frame_data, config) ==
    IF IsNone(angle) THEN st
    ELSE IF ~st.in_rep
    THEN IF RLe(angle, config.top_threshold)
         THEN [st EXCEPT !.in_rep = TRUE, !.rep_start = i, !.direction = "down"]
         ELSE st
    ELSE IF st.direction = "down" /\ RLe(angle, config.bottom_threshold)
    THEN [st EXCEPT !.direction = "up"]
    ELSE IF st.direction = "up" /\ RLe(config.top_threshold, angle)
    THEN [st EXCEPT !.reps = Append(st.reps,
                                 RepDict(st.reps, st.rep_start, i, frame_data, i + 1)),
                    !.in_rep = FALSE,
                    !.rep_start = NoneIdx]
    ELSE st

\* ScanStep abandoning the open rep at a frame whose angle is missing
ScanStepAbandon(st, i, angle, frame_data, config) ==
    IF IsNone(angle)
    THEN [st EXCEPT !.in_rep = FALSE, !.rep_start = NoneIdx, !.direction = "None"]
    ELSE IF ~st.in_rep
    THEN IF RLt(angle, config.top_threshold)
         THEN [st EXCEPT !.in_rep = TRUE, !.rep_start = i, !.direction = "down"]
         ELSE st
    ELSE IF st.direction = "down" /\ RLe(angle, config.bottom_threshold)
    THEN [st EXCEPT !.direction = "up"]
    ELSE IF st.direction = "up" /\ RLe(config.top_threshold, angle)
    THEN [st EXCEPT !.reps = Append(st.reps,
                                 RepDict(st.reps, st.rep_start, i, frame_data, i + 1)),
                    !.in_rep = FALSE,
                    !.rep_start = NoneIdx]
    ELSE st

\* ScanStep leaving the rep open after emitting it
ScanStepKeepOpen(st, i, angle, frame_data, config) ==
    IF IsNone(angle) THEN st
    ELSE IF ~st.in_rep
    THEN IF RLt(angle, config.top_threshold)
         THEN [st EXCEPT !.in_rep = TRUE, !.rep_start = i, !.direction = "down"]
         ELSE st
    ELSE IF st.direction = "down" /\ RLe(angle, config.bottom_threshold)
    THEN [st EXCEPT !.direction = "up"]
    ELSE IF st.direction = "up" /\ RLe(config.top_threshold, angle)
    THEN [st EXCEPT !.reps = Append(st.reps,
                                 RepDict(st.reps, st.rep_start, i, frame_data, i + 1))]
    ELSE st

\* ScanStep taking the bottom transition in the frame that opens the rep
ScanStepFallThrough(st, i, angle, frame_data, config) ==
    IF IsNone(angle) THEN st
    ELSE IF ~st.in_rep
    THEN IF RLt(angle, config.top_threshold)
         THEN [st EXCEPT !.in_rep = TRUE, !.rep_start = i,
                         !.direction = IF RLe(angle, config.bottom_threshold)
                                       THEN "up" ELSE "down"]
         ELSE st
    ELSE IF st.direction = "down" /\ RLe(angle, config.bottom_threshold)
    THEN [st EXCEPT !.direction = "up"]
    ELSE IF st.direction = "up" /\ RLe(config.top_threshold, angle)
    THEN [st EXCEPT !.reps = Append(st.reps,
                                 RepDict(st.reps, st.rep_start, i, frame_data, i + 1)),
                    !.in_rep = FALSE,
                    !.rep_start = NoneIdx]
    ELSE st

\* lines 157-182: the loop body for index i and smoothed angle `angle`
ScanStep(st, i, angle, frame_data, config) ==
    IF IsNone(angle) THEN st
    ELSE IF ~st.in_rep
    THEN IF RLt(angle, config.top_threshold)
         THEN [st EXCEPT !.in_rep = TRUE, !.rep_start = i, !.direction = "down"]
         ELSE st
    ELSE IF st.direction = "down" /\ RLe(angle, config.bottom_threshold)
    THEN [st EXCEPT !.direction = "up"]
    ELSE IF st.direction = "up" /\ RLe(config.top_threshold, angle)
    THEN [st EXCEPT !.reps = Append(st.reps,
                                 RepDict(st.reps, st.rep_start, i, frame_data, i + 1)),
                    !.in_rep = FALSE,
                    !.rep_start = NoneIdx]
    ELSE st

\* HandleIncomplete slicing frame_data[rep_start:-1]: the last frame is left out
HandleIncompleteShort(st, frame_data) ==
    IF st.in_rep /\ st.rep_start # NoneIdx
    THEN IF Len(st.reps) = 0 \/ st.rep_start > st.reps[Len(st.reps)].end_frame
         THEN Append(st.reps,
                     RepDict(st.reps, st.rep_start, Len(frame_data) - 1,
                             frame_data, Len(frame_data) - 1))
         ELSE st.reps
    ELSE st.reps

\* HandleIncomplete without the incomplete last rep
HandleIncompleteNone(st, frame_data) == st.reps

\* lines 184-196: the incomplete last rep, and the returned list
HandleIncomplete(st, frame_data) ==
    IF st.in_rep /\ st.rep_start # NoneIdx
    THEN IF Len(st.reps) = 0 \/ st.rep_start > st.reps[Len(st.reps)].end_frame
         THEN Append(st.reps,
                     RepDict(st.reps, st.rep_start, Len(frame_data) - 1,
                             frame_data, Len(frame_data)))
         ELSE st.reps
    ELSE st.reps

\* line 143: not angles or all(a is None for a in angles)
NoSignal(angles) == angles = <<>> \/ \A k \in 1..Len(angles) : IsNone(angles[k])

\* the loop run from index i to the end of smoothed
RECURSIVE ScanFrom(_, _, _, _, _)
ScanFrom(st, i, smoothed, frame_data, config) ==
    IF i >= Len(smoothed) THEN st
    ELSE ScanFrom(ScanStep(st, i, smoothed[i + 1], frame_data, config),
                  i + 1, smoothed, frame_data, config)

_find_rep_boundaries(angles, frame_data, config) ==
    IF NoSignal(angles) THEN <<>>
    ELSE HandleIncomplete(ScanFrom(LoopInit, 0, _smooth_angles(angles), frame_data, config),
                          frame_data)

segment_reps(frame_data, exercise_name) ==
    LET config == ConfigOf(exercise_name)
    IN  _find_rep_boundaries(_calculate_angles(frame_data, config), frame_data, config)

(***************************************************************************)
(* VelocityAnalyzer.                                                       *)
(***************************************************************************)
\* the joint_map lookups of _calculate_rom and _calculate_velocities
PrimaryJoint(exercise_name) ==
    CASE Lower(exercise_name) = "squat" -> "left_hip"
      [] Lower(exercise_name) = "bench" -> "left_elbow"
      [] Lower(exercise_name) = "curl"  -> "left_elbow"
      [] OTHER -> "left_hip"

\* frame.get("keypoints") and joint in frame["keypoints"]
HasJoint(frame, joint) ==
    HasKeypoints(frame) /\ joint \in DOMAIN Keypoints(frame.keypoints)

JointOf(frame, joint) == Keypoints(frame.keypoints)[joint]

RECURSIVE SeqMax(_)
SeqMax(xs) == IF Len(xs) = 1 THEN xs[1] ELSE Max2(Head(xs), SeqMax(Tail(xs)))
RECURSIVE SeqMin(_)
SeqMin(xs) == IF Len(xs) = 1 THEN xs[1] ELSE Min2(Head(xs), SeqMin(Tail(xs)))

_calculate_rom(frames, exercise_name) ==
    IF frames = <<>> THEN RInt(0)
    ELSE LET primary_joint == PrimaryJoint(exercise_name)
             withJoint == SelectSeq(frames, LAMBDA f : HasJoint(f, primary_joint))
             positions == [k \in 1..Len(withJoint) |-> JointOf(withJoint[k], primary_joint).y]
         IN  IF Len(positions) < 2 THEN RInt(0)
             ELSE Coord(SeqMax(positions) - SeqMin(positions))

\* lines 125-133: centred moving average, window 3
VelocityWindow == 3

_smooth_velocities(velocities) ==
    [k \in 1..Len(velocities) |->
        LET i     == k - 1
            start == Max2(0, i - VelocityWindow \div 2)
            end   == Min2(Len(velocities), i + VelocityWindow \div 2 + 1)
        IN  Mean(SubSeq(velocities, start + 1, end))]

\* lines 96-120: the raw velocity of frame i >= 1 of the rep (0-based)
RawVelocity(frames, i, primary_joint) ==
    LET prev_frame == frames[i]
        curr_frame == frames[i + 1]
    IN  IF ~(HasKeypoints(prev_frame) /\ HasKeypoints(curr_frame)) THEN RInt(0)
        ELSE IF ~HasJoint(prev_frame, primary_joint) \/ ~HasJoint(curr_frame, primary_joint)
        THEN RInt(0)
        ELSE LET dt == RSub(curr_frame.timestamp, prev_frame.timestamp)
                 dy == Coord(JointOf(curr_frame, primary_joint).y
                             - JointOf(prev_frame, primary_joint).y)
             IN  IF RLe(dt, RInt(0)) THEN RInt(0) ELSE RDiv(dy, dt)

_calculate_velocities(frames, exercise_name) ==
    LET primary_joint == PrimaryJoint(exercise_name)
        velocities ==
            <<RInt(0)>> \o [k \in 1..(Len(frames) - 1) |->
                               RawVelocity(frames, k, primary_joint)]
    IN  _smooth_velocities(velocities)

\* Python's stable sort of a list of records by the rational key field
RECURSIVE InsertByKey(_, _)
InsertByKey(sorted, e) ==
    IF sorted = <<>> THEN <<e>>
    ELSE IF RLt(e.key, Head(sorted).key) THEN <<e>> \o sorted
         ELSE <<Head(sorted)>> \o InsertByKey(Tail(sorted), e)

RECURSIVE SortByKey(_)
SortByKey(xs) ==
    IF xs = <<>> THEN <<>>
    ELSE InsertByKey(SortByKey(SubSeq(xs, 1, Len(xs) - 1)), xs[Len(xs)])

_get_concentric_velocity(velocities) ==
    IF velocities = <<>> THEN RInt(0)
    ELSE LET negative_velocities == SelectSeq(velocities, LAMBDA v : RLt(v, RInt(0)))
         IN  IF negative_velocities = <<>> THEN RInt(0)
             ELSE LET keyed == [k \in 1..Len(negative_velocities) |->
                                   [key |-> negative_velocities[k]]]
                      sorted_vels == SortByKey(keyed)
                      half == Len(sorted_vels) \div 2
                      bottom_half == [k \in 1..half |-> sorted_vels[k].key]
                  IN  IF bottom_half # <<>> THEN RAbs(Mean(bottom_half)) ELSE RInt(0)

NoRegion == [start_frame |-> 0, end_frame |-> 0, time |-> RInt(0)]

\* _find_sticking_region with the region's end one past the slowest frames
_find_sticking_region_past(frames, velocities) ==
    IF Len(frames) < 2 \/ Len(velocities) < 2 THEN NoRegion
    ELSE LET all == [k \in 1..Len(velocities) |->
                        [idx |-> k - 1, key |-> RAbs(velocities[k]), vel |-> velocities[k]]]
             concentric_frames == SelectSeq(all, LAMBDA e : RLt(e.vel, RInt(0)))
         IN  IF concentric_frames = <<>> THEN NoRegion
             ELSE LET sorted == SortByKey(concentric_frames)
                      slowest_count == Max2(1, Len(sorted) \div 4)
                      slowest_frames == [k \in 1..slowest_count |-> sorted[k].idx]
                  IN  [start_frame |-> SeqMin(slowest_frames),
                       end_frame   |-> SeqMax(slowest_frames) + 1,
                       time        |-> RInt(0)]

\* lines 159-201
_find_sticking_region(frames, velocities) ==
    IF Len(frames) < 2 \/ Len(velocities) < 2 THEN NoRegion
    ELSE LET all == [k \in 1..Len(velocities) |->
                        [idx |-> k - 1, key |-> RAbs(velocities[k]), vel |-> velocities[k]]]
             concentric_frames ==
                 SelectSeq(all, LAMBDA e : e.idx < Len(frames) /\ RLt(e.vel, RInt(0)))
         IN  IF concentric_frames = <<>> THEN NoRegion
             ELSE LET sorted == SortByKey(concentric_frames)
                      slowest_count == Max2(1, Len(sorted) \div 4)
                      slowest_frames == [k \in 1..slowest_count |-> sorted[k].idx]
                      start_frame == SeqMin(slowest_frames)
                      end_frame == SeqMax(slowest_frames)
                  IN  [start_frame |-> start_frame,
                       end_frame   |-> end_frame,
                       time        |-> IF end_frame < Len(frames) /\ start_frame < Len(frames)
                                       THEN RSub(frames[end_frame + 1].timestamp,
                                                 frames[start_frame + 1].timestamp)
                                       ELSE RInt(0)]

\* lines 29-48: the analysed-rep dictionary of one rep
AnalyzeRep(rep, exercise_name) ==
    LET frames == rep.frames
        velocities == _calculate_velocities(frames, exercise_name)
    IN  [rep_number          |-> rep.rep_number,
         rom                 |-> _calculate_rom(frames, exercise_name),
         velocities          |-> velocities,
         concentric_velocity |-> _get_concentric_velocity(velocities),
         sticking_region     |-> _find_sticking_region(frames, velocities),
         frames              |-> frames]

\* lines 22-50: reps of fewer than 2 frames are skipped
analyze_reps(reps, exercise_name) ==
    LET kept == SelectSeq(reps, LAMBDA rep : Len(rep.frames) >= 2)
    IN  [k \in 1..Len(kept) |-> AnalyzeRep(kept[k], exercise_name)]

\* LossOf without max(0.0, loss)
LossOfSigned(first_rep_velocity, current_velocity) ==
    IF current_velocity = RInt(0) THEN RInt(100)
    ELSE RMul(RDiv(RSub(first_rep_velocity, current_velocity), first_rep_velocity),
              RInt(100))

\* LossOf giving a stalled rep, of velocity 0, the loss 0
LossOfStalledZero(first_rep_velocity, current_velocity) ==
    LET loss == IF current_velocity = RInt(0) THEN RInt(0)
                ELSE RMul(RDiv(RSub(first_rep_velocity, current_velocity),
                               first_rep_velocity),
                          RInt(100))
    IN  RMax(RInt(0), loss)

\* lines 212-219: one rep's loss against the first rep's velocity
LossOf(first_rep_velocity, current_velocity) ==
    LET loss == IF current_velocity = RInt(0) THEN RInt(100)
                ELSE RMul(RDiv(RSub(first_rep_velocity, current_velocity),
                               first_rep_velocity),
                          RInt(100))
    IN  RMax(RInt(0), loss)

\* calculate_velocity_loss without the zero-reference return: the loop runs, a
\* stalled rep gets 100 and the division by the zero reference is skipped
calculate_velocity_loss_unguarded(analyzed_reps) ==
    IF analyzed_reps = <<>> THEN <<>>
    ELSE LET first_rep_velocity == analyzed_reps[1].concentric_velocity
         IN  [k \in 1..Len(analyzed_reps) |->
                 IF analyzed_reps[k].concentric_velocity = RInt(0) THEN RInt(100)
                 ELSE IF first_rep_velocity = RInt(0) THEN RInt(0)
                 ELSE LossOf(first_rep_velocity, analyzed_reps[k].concentric_velocity)]

calculate_velocity_loss(analyzed_reps) ==
    IF analyzed_reps = <<>> THEN <<>>
    ELSE LET first_rep_velocity == analyzed_reps[1].concentric_velocity
         IN  IF first_rep_velocity = RInt(0)
             THEN [k \in 1..Len(analyzed_reps) |-> RInt(0)]
             ELSE [k \in 1..Len(analyzed_reps) |->
                      LossOf(first_rep_velocity, analyzed_reps[k].concentric_velocity)]

(***************************************************************************)
(* TensionScorer.                                                          *)
(***************************************************************************)
\* Python's round(x, ndigits) for ndigits = 0, 1, 2: to the nearest multiple
\* of 10^-ndigits, an exact tie to the even neighbour
Round(x, ndigits) ==
    LET scale == IF ndigits = 0 THEN 1 ELSE IF ndigits = 1 THEN 10 ELSE 100
        p == x.n * scale
        q == x.d
        f == p \div q
        r == p - f * q
        m == IF 2 * r < q THEN f
             ELSE IF 2 * r > q THEN f + 1
             ELSE IF f % 2 = 0 THEN f ELSE f + 1
    IN  Rat(m, scale)

\* the joint_map lookup of _calculate_leverage_scores, lines 92-101
LeverageJoints(exercise_name) ==
    CASE Lower(exercise_name) = "squat" -> <<"left_hip", "left_knee">>
      [] Lower(exercise_name) = "bench" -> <<"left_shoulder", "left_elbow">>
      [] Lower(exercise_name) = "curl"  -> <<"left_elbow", "left_wrist">>
      [] OTHER -> <<"left_hip", "left_knee">>

\* the integer square root of a perfect square
Sqrt(q) == CHOOSE r \in 0..q : r * r = q

\* lines 127-136: min(1.0, distance * 2.0) between the two joints
NormalizedDistance(p1, p2) ==
    LET dx == p2.x - p1.x
        dy == p2.y - p1.y
        sq == dx * dx + dy * dy
    IN  IF 4 * sq >= 100 THEN RInt(1)
        ELSE RMin(RInt(1), RMul(Coord(Sqrt(sq)), RInt(2)))

\* Python's frames[start:stop] for 0 <= start, 0 <= stop
Slice(xs, start, stop) == SubSeq(xs, start + 1, Min2(stop, Len(xs)))

\* lines 104-143: one rep's leverage score
LeverageScore(rep, exercise_name) ==
    LET frames == rep.frames
        joints == LeverageJoints(exercise_name)
    IN  IF frames = <<>> THEN Rat(1, 2)
        ELSE LET sticking == rep.sticking_region
                 sticking_frames == Slice(frames, sticking.start_frame, sticking.end_frame)
                 usable == SelectSeq(sticking_frames,
                                     LAMBDA f : HasJoint(f, joints[1]) /\ HasJoint(f, joints[2]))
                 angles == [k \in 1..Len(usable) |->
                               NormalizedDistance(JointOf(usable[k], joints[1]),
                                                  JointOf(usable[k], joints[2]))]
             IN  IF sticking_frames = <<>> THEN Rat(1, 2)
                 ELSE IF angles # <<>> THEN Mean(angles) ELSE Rat(1, 2)

_calculate_leverage_scores(analyzed_reps, exercise_name) ==
    [k \in 1..Len(analyzed_reps) |-> LeverageScore(analyzed_reps[k], exercise_name)]

\* IsHighTension with the ratio taken as 0 when the first rep's velocity is 0
IsHighTensionZeroFirst(analyzed_reps, velocity_loss, i) ==
    LET vel_loss == IF i < Len(velocity_loss) THEN velocity_loss[i + 1] ELSE RInt(0)
        concentric_vel == analyzed_reps[i + 1].concentric_velocity
        first_rep_vel == analyzed_reps[1].concentric_velocity
        vel_ratio == IF RLt(RInt(0), first_rep_vel)
                     THEN RDiv(concentric_vel, first_rep_vel)
                     ELSE RInt(0)
    IN  RLt(RInt(30), vel_loss) \/ RLt(vel_ratio, Rat(2, 10))

\* lines 155-168: whether the rep at 0-based position i is flagged
IsHighTension(analyzed_reps, velocity_loss, i) ==
    LET vel_loss == IF i < Len(velocity_loss) THEN velocity_loss[i + 1] ELSE RInt(0)
        concentric_vel == analyzed_reps[i + 1].concentric_velocity
        first_rep_vel == analyzed_reps[1].concentric_velocity
        vel_ratio == IF RLt(RInt(0), first_rep_vel)
                     THEN RDiv(concentric_vel, first_rep_vel)
                     ELSE RInt(1)
    IN  RLt(RInt(30), vel_loss) \/ RLt(vel_ratio, Rat(2, 10))

_identify_high_tension_reps(analyzed_reps, velocity_loss) ==
    LET idx == SelectSeq([k \in 1..Len(analyzed_reps) |-> k],
                         LAMBDA k : IsHighTension(analyzed_reps, velocity_loss, k - 1))
    IN  [k \in 1..Len(idx) |-> analyzed_reps[idx[k]].rep_number]

InSeq(x, xs) == \E k \in 1..Len(xs) : xs[k] = x

_calculate_high_tension_time(analyzed_reps, high_tension_rep_numbers) ==
    LET flagged == SelectSeq(analyzed_reps,
                             LAMBDA rep : InSeq(rep.rep_number, high_tension_rep_numbers))
    IN  RSum([k \in 1..Len(flagged) |-> flagged[k].sticking_region.time])

(***************************************************************************)
(* TensionScorer._generate_feedback.  The text is modelled as the sequence *)
(* of its sentences, each [text, args]: the sentence's fixed wording and   *)
(* the numbers formatted into it.                                          *)
(***************************************************************************)
Sentence(text, args) == [text |-> text, args |-> args]

_generate_feedback(tension_score, high_tension_reps, high_tension_time, rep_count, velocity_loss) ==
    IF rep_count = 0
    THEN << Sentence("No reps detected. Please ensure you're visible in the video and performing the exercise correctly.", <<>>) >>
    ELSE LET n == Len(high_tension_reps)
             score ==
                 IF RLe(RInt(80), tension_score)
                 THEN << Sentence("High mechanical tension achieved (Score: {}/100).",
                                  <<Round(tension_score, 0)>>) >>
                 ELSE IF RLe(RInt(60), tension_score)
                 THEN << Sentence("Moderate mechanical tension (Score: {}/100).",
                                  <<Round(tension_score, 0)>>) >>
                 ELSE << Sentence("Lower mechanical tension (Score: {}/100). Consider increasing load or slowing tempo.",
                                  <<Round(tension_score, 0)>>) >>
             flagged ==
                 IF n > 0
                 THEN (IF n = 1
                       THEN << Sentence("You hit high tension on rep {}.",
                                        <<RInt(high_tension_reps[1])>>) >>
                       ELSE IF n <= 3
                       THEN << Sentence("You hit high tension on reps {}, and {}.",
                                        [k \in 1..n |-> RInt(high_tension_reps[k])]) >>
                       ELSE << Sentence("You hit high tension on {} reps (reps {}-{}).",
                                        <<RInt(n), RInt(high_tension_reps[1]),
                                          RInt(high_tension_reps[n])>>) >>)
                      \o << Sentence("Total high-tension time: {} seconds.",
                                     <<Round(high_tension_time, 1)>>) >>
                 ELSE << Sentence("No high-tension reps detected. Consider increasing load for better stimulus.", <<>>) >>
             loss ==
                 IF Len(velocity_loss) > 1
                 THEN LET final_loss == velocity_loss[Len(velocity_loss)]
                      IN  IF RLt(RInt(50), final_loss)
                          THEN << Sentence("Significant velocity loss detected - last rep was near failure.", <<>>) >>
                          ELSE IF RLt(RInt(30), final_loss)
                          THEN << Sentence("Moderate velocity loss - good training stimulus.", <<>>) >>
                          ELSE <<>>
                 ELSE <<>>
         IN  score \o flagged \o loss

(***************************************************************************)
(* TensionScorer.calculate_tension_score.                                  *)
(***************************************************************************)
\* VelocityScore on the sum of the losses instead of their mean
VelocityScoreSum(velocity_loss) ==
    LET total == IF velocity_loss # <<>> THEN RSum(velocity_loss) ELSE RInt(0)
    IN  RMin(RInt(100), RMul(total, Rat(12, 10)))

\* lines 39-40
VelocityScore(velocity_loss) ==
    LET avg_velocity_loss == IF velocity_loss # <<>> THEN Mean(velocity_loss) ELSE RInt(0)
    IN  RMin(RInt(100), RMul(avg_velocity_loss, Rat(12, 10)))

\* BlendScore with the velocity score unweighted and the sum not clamped
BlendScoreRaw(velocity_score, avg_leverage) ==
    RAdd(velocity_score, RMul(RMul(avg_leverage, RInt(100)), Rat(3, 10)))

\* lines 59-60: the 70/30 blend, clamped to [0, 100]
BlendScore(velocity_score, avg_leverage) ==
    LET tension_score == RAdd(RMul(velocity_score, Rat(7, 10)),
                              RMul(RMul(avg_leverage, RInt(100)), Rat(3, 10)))
    IN  RMin(RInt(100), RMax(RInt(0), tension_score))

\* lines 38-82: the result for a non-empty list of analysed reps
ScoreOfReps(analyzed_reps, velocity_loss, load_kg, exercise_name) ==
    LET avg_velocity_loss ==
            IF velocity_loss # <<>> THEN Mean(velocity_loss) ELSE RInt(0)
        velocity_score == VelocityScore(velocity_loss)
        leverage_scores == _calculate_leverage_scores(analyzed_reps, exercise_name)
        avg_leverage ==
            IF leverage_scores # <<>> THEN Mean(leverage_scores) ELSE Rat(1, 2)
        high_tension_reps == _identify_high_tension_reps(analyzed_reps, velocity_loss)
        high_tension_time ==
            _calculate_high_tension_time(analyzed_reps, high_tension_reps)
        tension_score == BlendScore(velocity_score, avg_leverage)
        feedback == _generate_feedback(tension_score, high_tension_reps,
                                       high_tension_time, Len(analyzed_reps),
                                       velocity_loss)
    IN  [tension_score             |-> Round(tension_score, 1),
         high_tension_reps         |-> high_tension_reps,
         high_tension_time_seconds |-> Round(high_tension_time, 2),
         feedback_text             |-> feedback,
         raw_metrics               |-> [velocity_loss     |-> velocity_loss,
                                        avg_velocity_loss |-> avg_velocity_loss,
                                        leverage_scores   |-> leverage_scores,
                                        rep_count         |-> Len(analyzed_reps)]]

\* calculate_tension_score without the early return of lines 29-36
calculate_tension_score_unguarded(analyzed_reps, velocity_loss, load_kg, exercise_name) ==
    ScoreOfReps(analyzed_reps, velocity_loss, load_kg, exercise_name)

\* lines 11-82
calculate_tension_score(analyzed_reps, velocity_loss, load_kg, exercise_name) ==
    IF analyzed_reps = <<>>
    THEN [tension_score             |-> RInt(0),
          high_tension_reps         |-> <<>>,
          high_tension_time_seconds |-> RInt(0),
          feedback_text             |-> << Sentence("No reps detected in video.", <<>>) >>]
    ELSE ScoreOfReps(analyzed_reps, velocity_loss, load_kg, exercise_name)

(***************************************************************************)
(* State.  pc is the position in the pipeline; frame_data and              *)
(* exercise_name are the inputs; angles, smoothed, i, in_rep, rep_start,   *)
(* direction and reps are the locals of segment_reps and                   *)
(* _find_rep_boundaries; analyzed_reps, velocity_loss and tension_result   *)
(* are the values analyze_workout computes from the segmented reps.        *)
(***************************************************************************)
VARIABLES pc, frame_data, exercise_name, angles, smoothed, i, in_rep, rep_start,
          direction, reps, analyzed_reps, velocity_loss, tension_result

\* the state of one analyze_workout request: the upload, the temporary file and
\* the files of the temporary directory, the local db_workout, the database,
\* the exception caught by the handler and the response to the caller
VARIABLES video, temp_file, files, db_workout, db, exc, response

scanVars == <<angles, smoothed, i, in_rep, rep_start, direction>>

requestVars == <<video, temp_file, files, db_workout, db, exc, response>>

vars == <<pc, frame_data, exercise_name, angles, smoothed, i, in_rep, rep_start,
          direction, reps, analyzed_reps, velocity_loss, tension_result,
          video, temp_file, files, db_workout, db, exc, response>>

\* the values of the request's state while no request is running
NoVideo == [filename |-> "", size |-> 0, readable |-> FALSE, kinds |-> <<>>]

\* temp_file = None, line 61
NoFile == <<>>

\* 'db_workout' is not in locals(), line 174
Unbound == [id |-> 0, exercise_name |-> "", load_kg |-> 0]

EmptyDb == [workouts |-> {}, analyses |-> {}, rep_data |-> {}]

NoException == [type |-> "None", status_code |-> 0, detail |-> ""]

NoResponse == [status_code |-> 0, detail |-> <<>>, body |-> <<>>]

NoRequest ==
    /\ video = NoVideo
    /\ temp_file = NoFile
    /\ files = {}
    /\ db_workout = Unbound
    /\ db = EmptyDb
    /\ exc = NoException
    /\ response = NoResponse

(***************************************************************************)
(* Inputs.                                                                 *)
(***************************************************************************)
\* longest frame sequence over the three-kind alphabet
MaxFrames == 8
\* longest frame sequence over the full alphabet of frame kinds
MaxShort == 3
\* longest angle list handed to _find_rep_boundaries directly
MaxAngles == 3
\* frames per second of the decoded video: timestamp = frame_number / fps
VideoFps == 30

Kind(has_pose, pose) == [has_pose |-> has_pose, keypoints |-> pose]

LongKinds == {Kind(FALSE, "None"), Kind(TRUE, "Folded"), Kind(TRUE, "Extended")}

ShortKinds ==
    LongKinds \cup {Kind(TRUE, "None"), Kind(FALSE, "Extended"), Kind(TRUE, "Partial"),
                    Kind(TRUE, "Degenerate"), Kind(TRUE, "Flexed"), Kind(TRUE, "Mid"),
                    Kind(TRUE, "Lunge")}

\* process_video, lines 60-65: the frame dictionaries of a sequence of kinds
MkFrames(kinds) ==
    [k \in 1..Len(kinds) |->
        [frame_number |-> k - 1,
         timestamp    |-> Rat(k - 1, VideoFps),
         keypoints    |-> kinds[k].keypoints,
         has_pose     |-> kinds[k].has_pose]]

SeqsUpTo(S, n) == UNION {[1..m -> S] : m \in 0..n}

LongNames == {"squat"}
ShortNames == {"squat", "BENCH", "curl", "Deadlift"}

\* angle samples handed to _find_rep_boundaries directly, in hundredths
AngleSamples == {NoneVal, Rat(20, 100), Rat(30, 100), Rat(50, 100), Rat(70, 100), Rat(90, 100)}

\* the angle sequence of the specification's segmentation example
ExampleAngles ==
    << Rat(90, 100), Rat(75, 100), Rat(60, 100), Rat(40, 100), Rat(25, 100),
       Rat(20, 100), Rat(35, 100), Rat(55, 100), Rat(75, 100), Rat(90, 100) >>

DirectAngles == SeqsUpTo(AngleSamples, MaxAngles) \cup {ExampleAngles}

Blank ==
    /\ smoothed = <<>>
    /\ i = 0
    /\ in_rep = FALSE
    /\ rep_start = NoneIdx
    /\ direction = "None"
    /\ reps = <<>>
    /\ analyzed_reps = <<>>
    /\ velocity_loss = <<>>
    /\ tension_result = [status |-> "none"]

\* segment_reps is called on a frame sequence
InitFrames ==
    /\ pc = "start"
    /\ \/ /\ frame_data \in {MkFrames(ks) : ks \in SeqsUpTo(LongKinds, MaxFrames)}
          /\ exercise_name \in LongNames
       \/ /\ frame_data \in {MkFrames(ks) : ks \in SeqsUpTo(ShortKinds, MaxShort)}
          /\ exercise_name \in ShortNames
    /\ angles = <<>>
    /\ Blank
    /\ NoRequest

\* _find_rep_boundaries is called on an angle list aligned with its frames
InitAngles ==
    /\ pc = "find"
    /\ angles \in DirectAngles
    /\ frame_data = MkFrames([k \in 1..Len(angles) |-> Kind(TRUE, "Extended")])
    /\ exercise_name = "squat"
    /\ Blank
    /\ NoRequest

Init == InitFrames \/ InitAngles

(***************************************************************************)
(* Actions of the pipeline.                                                *)
(***************************************************************************)
\* segment_reps, lines 53-59
CalculateAngles ==
    /\ pc = "start"
    /\ angles' = _calculate_angles(frame_data, ConfigOf(exercise_name))
    /\ pc' = "find"
    /\ UNCHANGED <<frame_data, exercise_name, smoothed, i, in_rep, rep_start,
                   direction, reps, analyzed_reps, velocity_loss, tension_result>>
    /\ UNCHANGED requestVars

\* _find_rep_boundaries, lines 143-155: the early return, or the loop's set-up
FindRepBoundaries ==
    /\ pc = "find"
    /\ IF NoSignal(angles)
       THEN /\ pc' = "segmented"
            /\ UNCHANGED smoothed
       ELSE /\ pc' = "scan"
            /\ smoothed' = _smooth_angles(angles)
    /\ i' = 0
    /\ in_rep' = LoopInit.in_rep
    /\ rep_start' = LoopInit.rep_start
    /\ direction' = LoopInit.direction
    /\ reps' = LoopInit.reps
    /\ UNCHANGED <<frame_data, exercise_name, angles, analyzed_reps, velocity_loss,
                   tension_result>>
    /\ UNCHANGED requestVars

LoopState == [in_rep |-> in_rep, rep_start |-> rep_start, direction |-> direction,
              reps |-> reps]

\* one iteration of the loop of lines 157-182
ScanFrame ==
    /\ pc = "scan"
    /\ i < Len(smoothed)
    /\ LET st == ScanStep(LoopState, i, smoothed[i + 1], frame_data,
                          ConfigOf(exercise_name))
       IN  /\ in_rep' = st.in_rep
           /\ rep_start' = st.rep_start
           /\ direction' = st.direction
           /\ reps' = st.reps
    /\ i' = i + 1
    /\ UNCHANGED <<pc, frame_data, exercise_name, angles, smoothed, analyzed_reps,
                   velocity_loss, tension_result>>
    /\ UNCHANGED requestVars

\* lines 184-196, after the loop
FinishScan ==
    /\ pc = "scan"
    /\ i = Len(smoothed)
    /\ reps' = HandleIncomplete(LoopState, frame_data)
    /\ pc' = "segmented"
    /\ UNCHANGED <<frame_data, exercise_name, angles, smoothed, i, in_rep, rep_start,
                   direction, analyzed_reps, velocity_loss, tension_result>>
    /\ UNCHANGED requestVars

\* analyze_workout, line 103
AnalyzeReps ==
    /\ pc = "segmented"
    /\ analyzed_reps' = analyze_reps(reps, exercise_name)
    /\ pc' = "analyzed"
    /\ UNCHANGED <<frame_data, exercise_name, angles, smoothed, i, in_rep, rep_start,
                   direction, reps, velocity_loss, tension_result>>
    /\ UNCHANGED requestVars

\* analyze_workout, line 104
CalculateVelocityLoss ==
    /\ pc = "analyzed"
    /\ velocity_loss' = calculate_velocity_loss(analyzed_reps)
    /\ pc' = "loss"
    /\ UNCHANGED <<frame_data, exercise_name, angles, smoothed, i, in_rep, rep_start,
                   direction, reps, analyzed_reps, tension_result>>
    /\ UNCHANGED requestVars

\* the loads of the calls followed
Loads == {60, 100}

\* analyze_workout, lines 107-113
CalculateTensionScore ==
    /\ pc = "loss"
    /\ \E load_kg \in Loads :
          tension_result' =
              calculate_tension_score(analyzed_reps, velocity_loss, load_kg, exercise_name)
    /\ pc' = "scored"
    /\ UNCHANGED <<frame_data, exercise_name, angles, smoothed, i, in_rep, rep_start,
                   direction, reps, analyzed_reps, velocity_loss>>
    /\ UNCHANGED requestVars

Next ==
    \/ CalculateAngles
    \/ FindRepBoundaries
    \/ ScanFrame
    \/ FinishScan
    \/ AnalyzeReps
    \/ CalculateVelocityLoss
    \/ CalculateTensionScore

Spec == Init /\ [][Next]_vars

(***************************************************************************)
(* Properties of the segmenter.                                            *)
(***************************************************************************)
\* the three states of the state machine, from the loop's locals
SegState ==
    IF ~in_rep THEN "IDLE"
    ELSE IF direction = "down" THEN "DESCENDING" ELSE "ASCENDING"

\* reps' is reps with one rep appended
OneRepAppended ==
    /\ Len(reps') = Len(reps) + 1
    /\ SubSeq(reps', 1, Len(reps)) = reps

C1_Step ==
    (pc = "scan" /\ i < Len(smoothed) /\ ~IsNone(smoothed[i + 1])) =>
        LET a == smoothed[i + 1]
            config == ConfigOf(exercise_name)
        IN  CASE SegState = "IDLE" ->
                   /\ reps' = reps
                   /\ IF RLt(a, config.top_threshold)
                      THEN SegState' = "DESCENDING" /\ rep_start' = i
                      ELSE SegState' = "IDLE" /\ rep_start' = rep_start
              [] SegState = "DESCENDING" ->
                   /\ reps' = reps
                   /\ rep_start' = rep_start
                   /\ SegState' = IF RLe(a, config.bottom_threshold)
                                  THEN "ASCENDING" ELSE "DESCENDING"
              [] SegState = "ASCENDING" ->
                   IF RLe(config.top_threshold, a)
                   THEN /\ SegState' = "IDLE"
                        /\ OneRepAppended
                        /\ reps'[Len(reps')].start_frame = rep_start
                        /\ reps'[Len(reps')].end_frame = i
                   ELSE /\ SegState' = "ASCENDING"
                        /\ reps' = reps
                        /\ rep_start' = rep_start

\* C1: for every frame whose smoothed angle a is present, exactly these
\* transitions occur: IDLE opens a rep (rep_start = index, DESCENDING) iff
\* a < top_threshold; DESCENDING becomes ASCENDING iff a <= bottom_threshold,
\* emitting nothing; ASCENDING emits the rep (rep_start, index) and returns to
\* IDLE iff a >= top_threshold.
C1_Transitions == [][C1_Step]_vars

\* a rep was closed by the ascent crossing and the next one has been opened
C1_Witness == pc = "scan" /\ Len(reps) >= 1 /\ SegState = "DESCENDING"

\* C2: rep numbers are 1-based and gapless: the k-th rep of segment_reps has
\* rep_number k, and so has the k-th rep of analyze_reps on that output.
C2_Numbering ==
    /\ pc \in {"segmented", "analyzed", "loss", "scored"} =>
           \A k \in 1..Len(reps) : reps[k].rep_number = k
    /\ pc \in {"analyzed", "loss", "scored"} =>
           \A k \in 1..Len(analyzed_reps) : analyzed_reps[k].rep_number = k

\* two reps were segmented and both were analysed
C2_Witness == pc = "analyzed" /\ Len(reps) = 2 /\ Len(analyzed_reps) = 2

C3_Step ==
    /\ (pc = "scan" /\ i = Len(smoothed) /\ in_rep
           /\ (reps = <<>> \/ rep_start > reps[Len(reps)].end_frame)) =>
          /\ OneRepAppended
          /\ LET last == reps'[Len(reps')]
             IN  /\ last.start_frame = rep_start
                 /\ last.end_frame = Len(frame_data) - 1
                 /\ last.end_time = frame_data[Len(frame_data)].timestamp
                 /\ last.frames = SubSeq(frame_data, rep_start + 1, Len(frame_data))
    /\ (pc = "scan" /\ i < Len(smoothed) /\ Len(reps') = Len(reps) + 1) =>
          /\ reps'[Len(reps')].end_frame = i
          /\ ~IsNone(smoothed[i + 1])
          /\ RLe(ConfigOf(exercise_name).top_threshold, smoothed[i + 1])

\* C3: when the scan ends with a rep open whose start is after the previous
\* rep's end (or there is no previous rep), exactly one final rep is emitted,
\* from rep_start to the last frame of the sequence, with that frame's
\* timestamp as end_time; a rep closed by the ascent crossing ends at the index
\* of the frame where angle >= top_threshold was observed.
C3_FinalRep == [][C3_Step]_vars

\* a rep was closed during the scan and a later open rep was emitted at its end
C3_Witness ==
    /\ pc = "segmented"
    /\ in_rep
    /\ Len(reps) = 2
    /\ reps[2].start_frame < reps[2].end_frame

\* C4: smoothing and the state machine on the example angle sequence, with
\* thresholds 0.3 / 0.7, yield exactly one rep.
C4_Example ==
    (pc = "segmented" /\ angles = ExampleAngles /\ Lower(exercise_name) = "squat") =>
        Len(reps) = 1

C4_Witness ==
    /\ pc = "segmented"
    /\ angles = ExampleAngles
    /\ Len(reps) = 1
    /\ reps[1].start_frame = 1
    /\ reps[1].end_frame = 9

\* the frame has no pose, no keypoints, or no joint triple of the exercise
\* with its three landmarks present on one side
YieldsMissing(frame, config) ==
    \/ ~frame.has_pose
    \/ ~HasKeypoints(frame)
    \/ \A j \in 1..Len(config.angle_joints) : \A side \in {"left_", "right_"} :
          ~({side \o config.angle_joints[j][1], side \o config.angle_joints[j][2],
             side \o config.angle_joints[j][3]}
                \subseteq DOMAIN Keypoints(frame.keypoints))

AllMissing ==
    \A k \in 1..Len(frame_data) : YieldsMissing(frame_data[k], ConfigOf(exercise_name))

\* C5: on an empty frame sequence, or one whose frames all yield the missing
\* marker, segment_reps returns the empty list.
C5_NoSignal == (pc = "segmented" /\ AllMissing) => reps = <<>>

\* three frames, missing for the three different reasons
C5_Witness ==
    /\ pc = "segmented"
    /\ Len(frame_data) = 3
    /\ AllMissing
    /\ ~frame_data[1].has_pose
    /\ frame_data[2].has_pose /\ ~HasKeypoints(frame_data[2])
    /\ frame_data[3].has_pose /\ HasKeypoints(frame_data[3])
    /\ reps = <<>>

(***************************************************************************)
(* The scorer and the velocity-loss calculation on their own:              *)
(* calculate_velocity_loss and calculate_tension_score are called on a     *)
(* list of analysed reps and, for the score, on any velocity_loss list.    *)
(***************************************************************************)
\* longest velocity_loss list given to the scorer
MaxLoss == 2
\* longest list of analysed reps given to the scorer
MaxReps == 2

\* velocity-loss percentages: none, moderate, high, and beyond the 100 cap
LossValues == {RInt(0), RInt(35), RInt(90), RInt(200)}
LossLists == SeqsUpTo(LossValues, MaxLoss)

\* the poses of a rep's frames: no movement, a fast lift, two slower lifts
RepPoses ==
    { <<"Extended", "Extended">>, <<"Folded", "Extended">>,
      <<"Flexed", "Mid">>, <<"Mid", "Extended">> }

ScoreNames == {"squat", "curl"}

\* the analysed rep, numbered k, of frames in the given poses
Candidate(k, poses, name) ==
    AnalyzeRep([rep_number |-> k,
                frames |-> MkFrames([j \in 1..Len(poses) |-> Kind(TRUE, poses[j])])],
               name)

AnalyzedRepLists(name) ==
    { [k \in 1..Len(ps) |-> Candidate(k, ps[k], name)] : ps \in SeqsUpTo(RepPoses, MaxReps) }

InitScore ==
    /\ pc = "analyzed"
    /\ exercise_name \in ScoreNames
    /\ analyzed_reps \in AnalyzedRepLists(exercise_name)
    /\ velocity_loss \in LossLists
    /\ frame_data = <<>>
    /\ angles = <<>>
    /\ smoothed = <<>>
    /\ i = 0
    /\ in_rep = FALSE
    /\ rep_start = NoneIdx
    /\ direction = "None"
    /\ reps = <<>>
    /\ tension_result = [status |-> "none"]
    /\ NoRequest

\* calculate_tension_score called on the given velocity_loss list
ScoreGiven ==
    /\ pc = "analyzed"
    /\ \E load_kg \in Loads :
          tension_result' =
              calculate_tension_score(analyzed_reps, velocity_loss, load_kg, exercise_name)
    /\ pc' = "scored"
    /\ UNCHANGED <<frame_data, exercise_name, angles, smoothed, i, in_rep, rep_start,
                   direction, reps, analyzed_reps, velocity_loss>>
    /\ UNCHANGED requestVars

NextScore ==
    \/ ScoreGiven
    \/ CalculateVelocityLoss
    \/ CalculateTensionScore

SpecScore == InitScore /\ [][NextScore]_vars

\* C7: the tension_score returned by calculate_tension_score, rounded to one
\* decimal, lies in [0, 100] for every list of analysed reps and every
\* velocity_loss list of non-negative numbers.
C7_ScoreRange ==
    pc = "scored" =>
        /\ RLe(RInt(0), tension_result.tension_score)
        /\ RLe(tension_result.tension_score, RInt(100))

\* the mean loss is beyond the cap of the velocity component
C7_Witness ==
    /\ pc = "scored"
    /\ analyzed_reps # <<>>
    /\ velocity_loss # <<>>
    /\ RLt(RInt(100), Mean(velocity_loss))
    /\ tension_result.tension_score = RInt(85)

ScoreOf(losses) ==
    calculate_tension_score(analyzed_reps, losses, 60, exercise_name).tension_score

\* C8: with the analysed reps fixed, the tension_score is non-decreasing in
\* the mean of velocity_loss: mean(L1) <= mean(L2) implies score(L1) <= score(L2).
C8_Monotone ==
    (pc = "scored" /\ velocity_loss # <<>>) =>
        \A other \in LossLists \ {<<>>} :
            /\ RLe(Mean(velocity_loss), Mean(other)) =>
                   RLe(tension_result.tension_score, ScoreOf(other))
            /\ RLe(Mean(other), Mean(velocity_loss)) =>
                   RLe(ScoreOf(other), tension_result.tension_score)

\* a list with a larger mean scores strictly higher, and a list of another
\* length with the same mean scores the same
C8_Witness ==
    /\ pc = "scored"
    /\ analyzed_reps # <<>>
    /\ velocity_loss # <<>>
    /\ \E other \in LossLists \ {<<>>} :
          /\ RLt(Mean(velocity_loss), Mean(other))
          /\ RLt(tension_result.tension_score, ScoreOf(other))
    /\ \E other \in LossLists \ {<<>>} :
          /\ Len(other) # Len(velocity_loss)
          /\ Mean(other) = Mean(velocity_loss)
          /\ ScoreOf(other) = tension_result.tension_score

\* C9: calculate_velocity_loss returns one value per rep, every value is
\* >= 0, and the first rep's value is exactly 0.
C9_LossNonNegative ==
    pc = "loss" =>
        /\ Len(velocity_loss) = Len(analyzed_reps)
        /\ \A k \in 1..Len(velocity_loss) : RLe(RInt(0), velocity_loss[k])
        /\ analyzed_reps # <<>> => velocity_loss[1] = RInt(0)

\* the second rep is faster than the first, whose velocity is not 0
C9_Witness ==
    /\ pc = "loss"
    /\ Len(analyzed_reps) >= 2
    /\ RLt(RInt(0), analyzed_reps[1].concentric_velocity)
    /\ RLt(analyzed_reps[1].concentric_velocity, analyzed_reps[2].concentric_velocity)
    /\ velocity_loss[2] = RInt(0)

\* C10: if the first rep's concentric_velocity is 0, the loss is 0 for every
\* rep, whatever the later reps' velocities are.
C10_ZeroReference ==
    (pc = "loss" /\ analyzed_reps # <<>>
        /\ analyzed_reps[1].concentric_velocity = RInt(0)) =>
        /\ Len(velocity_loss) = Len(analyzed_reps)
        /\ \A k \in 1..Len(velocity_loss) : velocity_loss[k] = RInt(0)

\* the first rep stalled and the second one moved
C10_Witness ==
    /\ pc = "loss"
    /\ Len(analyzed_reps) >= 2
    /\ analyzed_reps[1].concentric_velocity = RInt(0)
    /\ RLt(RInt(0), analyzed_reps[2].concentric_velocity)
    /\ velocity_loss = <<RInt(0), RInt(0)>>

(***************************************************************************)
(* The analyze_workout request, workouts.py lines 31-189.  One request is  *)
(* followed from its validation to its end; pc is the position in the      *)
(* handler.  The response is the one the caller receives when the request  *)
(* ends: a return or a raise inside the try block is held while the        *)
(* finally block runs.                                                     *)
(***************************************************************************)
\* settings, config.py lines 15-17
max_upload_size_mb == 100

allowed_video_extensions == {".mp4", ".mov", ".avi", ".mkv"}

temp_video_dir == "/tmp/him_videos"

\* Path(video.filename).suffix, line 42
Suffix(filename) ==
    CASE filename = "set.mp4" -> ".mp4"
      [] filename = "SET.MOV" -> ".MOV"
      [] filename = "notes.txt" -> ".txt"
      [] OTHER -> ""

\* the exceptions raised inside the try block
HTTPException(status_code, detail) ==
    [type |-> "HTTPException", status_code |-> status_code, detail |-> detail]

ValueError(detail) == [type |-> "ValueError", status_code |-> 0, detail |-> detail]

OSError(detail) == [type |-> "OSError", status_code |-> 0, detail |-> detail]

\* the exception a failed db.commit() raises
OperationalError(detail) == [type |-> "OperationalError", status_code |-> 0, detail |-> detail]

\* the response the caller receives for an HTTPException raised out of the handler
ErrorResponse(status_code, detail) ==
    [status_code |-> status_code, detail |-> detail, body |-> <<>>]

StatusText(status_code) ==
    CASE status_code = 400 -> "400"
      [] status_code = 500 -> "500"
      [] OTHER -> "0"

\* str(e), line 180: an HTTPException prints as its status code and detail,
\* any other exception as its message
Str(e) ==
    IF e.type = "HTTPException"
    THEN <<StatusText(e.status_code), ": ", e.detail>>
    ELSE <<e.detail>>

Digit(n) ==
    CASE n = 0 -> "0" [] n = 1 -> "1" [] n = 2 -> "2" [] n = 3 -> "3" [] n = 4 -> "4"
      [] n = 5 -> "5" [] n = 6 -> "6" [] n = 7 -> "7" [] n = 8 -> "8" [] OTHER -> "9"

IsNumeral(t) == \E n \in 0..9 : Digit(n) = t

Numeral(t) == CHOOSE n \in 0..9 : Digit(n) = t

RECURSIVE Items(_)
Items(l) ==
    IF l = <<>> THEN <<>>
    ELSE IF Len(l) = 1 THEN <<Digit(l[1])>>
    ELSE <<Digit(l[1]), ", ">> \o Items(Tail(l))

\* str(tension_result["high_tension_reps"]), line 119
StrOfList(l) == <<"[">> \o Items(l) \o <<"]">>

\* json.loads(db_analysis.high_tension_reps), line 151
json_loads(text) ==
    LET numerals == SelectSeq(text, IsNumeral)
    IN  [k \in 1..Len(numerals) |-> Numeral(numerals[k])]

\* the primary key the database gives to a new row
NextId(rows) ==
    IF rows = {} THEN 1
    ELSE (CHOOSE n \in {r.id : r \in rows} : \A r \in rows : r.id <= n) + 1

\* Workout(...), lines 77-82
Workout(id, name, load_kg) == [id |-> id, exercise_name |-> name, load_kg |-> load_kg]

\* Analysis(...), lines 116-123
Analysis(id, workout_id, result) ==
    [id                        |-> id,
     workout_id                |-> workout_id,
     tension_score             |-> result.tension_score,
     high_tension_reps         |-> StrOfList(result.high_tension_reps),
     high_tension_time_seconds |-> result.high_tension_time_seconds,
     feedback_text             |-> result.feedback_text,
     raw_metrics               |-> IF "raw_metrics" \in DOMAIN result
                                   THEN <<result.raw_metrics>> ELSE <<>>]

\* RepData(...), lines 131-138
RepData(id, analysis_id, analyzed_rep, result) ==
    [id                   |-> id,
     analysis_id          |-> analysis_id,
     rep_number           |-> analyzed_rep.rep_number,
     rom                  |-> analyzed_rep.rom,
     velocity             |-> analyzed_rep.concentric_velocity,
     is_high_tension      |-> InSeq(analyzed_rep.rep_number, result.high_tension_reps),
     sticking_region_time |-> analyzed_rep.sticking_region.time]

\* the detail of the HTTPException of lines 96-99
NoRepsDetail ==
    "Could not detect reps in video. Please ensure the exercise is clearly visible."

\* the uploads of the requests followed: a file name, a size in bytes and
\* what the video decodes to, a frame sequence or a file OpenCV cannot open
RequestFilenames == {"set.mp4", "SET.MOV", "notes.txt"}

RequestSizes == {1024, max_upload_size_mb * 1024 * 1024, max_upload_size_mb * 1024 * 1024 + 1}

RequestNames == {"squat", "BENCH"}

Videos ==
    {[filename |-> f, size |-> n, readable |-> TRUE, kinds |-> ks] :
        f \in RequestFilenames, n \in RequestSizes, ks \in SeqsUpTo(LongKinds, MaxShort)}
    \cup {[filename |-> f, size |-> n, readable |-> FALSE, kinds |-> <<>>] :
            f \in RequestFilenames, n \in RequestSizes}

\* a file another request left in the temporary directory
OtherFile == <<temp_video_dir, "tmp1", ".mp4">>

\* the stems tempfile may draw for a new file
Stems == {"tmp1", "tmp2"}

\* a workout row committed by an earlier request
EarlierWorkout == Workout(1, "squat", 60)

InitRequest ==
    /\ pc = "validate"
    /\ video \in Videos
    /\ exercise_name \in RequestNames
    /\ frame_data = <<>>
    /\ angles = <<>>
    /\ Blank
    /\ temp_file = NoFile
    /\ files \in {{}, {OtherFile}}
    /\ db_workout = Unbound
    /\ db \in {EmptyDb, [EmptyDb EXCEPT !.workouts = {EarlierWorkout}]}
    /\ exc = NoException
    /\ response = NoResponse

\* lines 41-58: the extension and the size are validated before the try block
Validate ==
    /\ pc = "validate"
    /\ LET file_ext == Lower(Suffix(video.filename))
           max_size == max_upload_size_mb * 1024 * 1024
       IN  IF file_ext \notin allowed_video_extensions
           THEN /\ response' = ErrorResponse(400, <<"Invalid file type. Allowed: .mp4, .mov, .avi, .mkv">>)
                /\ pc' = "done"
           ELSE IF video.size > max_size
           THEN /\ response' = ErrorResponse(400, <<"File too large. Maximum size: 100MB">>)
                /\ pc' = "done"
           ELSE /\ pc' = "save"
                /\ UNCHANGED response
    /\ UNCHANGED <<frame_data, exercise_name, reps, analyzed_reps, velocity_loss,
                   tension_result, video, temp_file, files, db_workout, db, exc>>
    /\ UNCHANGED scanVars

\* lines 64-74: the temporary file is created under a fresh name and the upload
\* written to it; the write can fail
SaveVideo ==
    /\ pc = "save"
    /\ \E stem \in Stems :
          LET name == <<temp_video_dir, stem, Lower(Suffix(video.filename))>>
          IN  /\ name \notin files
              /\ temp_file' = name
              /\ files' = files \cup {name}
    /\ \/ /\ pc' = "create"
          /\ UNCHANGED exc
       \/ /\ exc' = OSError("No space left on device")
          /\ pc' = "except"
    /\ UNCHANGED <<frame_data, exercise_name, reps, analyzed_reps, velocity_loss,
                   tension_result, video, db_workout, db, response>>
    /\ UNCHANGED scanVars

\* lines 77-85: the workout row is added and committed
CreateWorkout ==
    /\ pc = "create"
    /\ \E load_kg \in Loads :
          db_workout' = Workout(NextId(db.workouts), exercise_name, load_kg)
    /\ db' = [db EXCEPT !.workouts = @ \cup {db_workout'}]
    /\ pc' = "process"
    /\ UNCHANGED <<frame_data, exercise_name, reps, analyzed_reps, velocity_loss,
                   tension_result, video, temp_file, files, exc, response>>
    /\ UNCHANGED scanVars

\* lines 88-89: process_video returns the frames or raises ValueError
ProcessVideo ==
    /\ pc = "process"
    /\ IF video.readable
       THEN /\ frame_data' = MkFrames(video.kinds)
            /\ pc' = "segment"
            /\ UNCHANGED exc
       ELSE /\ exc' = ValueError("Could not open video file")
            /\ pc' = "except"
            /\ UNCHANGED frame_data
    /\ UNCHANGED <<exercise_name, reps, analyzed_reps, velocity_loss, tension_result,
                   video, temp_file, files, db_workout, db, response>>
    /\ UNCHANGED scanVars

\* lines 92-99: segment_reps, and the HTTPException raised on an empty result
SegmentReps ==
    /\ pc = "segment"
    /\ reps' = segment_reps(frame_data, exercise_name)
    /\ IF reps' = <<>>
       THEN /\ exc' = HTTPException(400, NoRepsDetail)
            /\ pc' = "except"
       ELSE /\ pc' = "analyze"
            /\ UNCHANGED exc
    /\ UNCHANGED <<frame_data, exercise_name, analyzed_reps, velocity_loss,
                   tension_result, video, temp_file, files, db_workout, db, response>>
    /\ UNCHANGED scanVars

\* lines 102-104
AnalyzeVelocity ==
    /\ pc = "analyze"
    /\ analyzed_reps' = analyze_reps(reps, exercise_name)
    /\ velocity_loss' = calculate_velocity_loss(analyzed_reps')
    /\ pc' = "score"
    /\ UNCHANGED <<frame_data, exercise_name, reps, tension_result>>
    /\ UNCHANGED requestVars
    /\ UNCHANGED scanVars

\* lines 107-113; load_kg is the value stored in the workout row at line 80
ScoreTension ==
    /\ pc = "score"
    /\ tension_result' = calculate_tension_score(analyzed_reps, velocity_loss,
                                                 db_workout.load_kg, exercise_name)
    /\ pc' = "persist"
    /\ UNCHANGED <<frame_data, exercise_name, reps, analyzed_reps, velocity_loss>>
    /\ UNCHANGED requestVars
    /\ UNCHANGED scanVars

\* lines 116-142: the analysis row is committed (line 125), then one rep row per
\* analysed rep is added and committed (line 141).  Either commit can raise (the
\* database is the environment of the request); rows of a commit that raised
\* are not stored, rows of an earlier commit stay stored.
PersistAnalysis ==
    /\ pc = "persist"
    /\ LET db_analysis == Analysis(NextId(db.analyses), db_workout.id, tension_result)
           first_id == NextId(db.rep_data)
           rows == {RepData(first_id + k - 1, db_analysis.id, analyzed_reps[k],
                            tension_result) : k \in 1..Len(analyzed_reps)}
       IN  \/ /\ db' = [db EXCEPT !.analyses = @ \cup {db_analysis},
                                   !.rep_data = @ \cup rows]
              /\ pc' = "respond"
              /\ UNCHANGED exc
           \/ /\ UNCHANGED db
              /\ exc' = OperationalError("analysis commit failed")
              /\ pc' = "except"
           \/ /\ db' = [db EXCEPT !.analyses = @ \cup {db_analysis}]
              /\ exc' = OperationalError("rep data commit failed")
              /\ pc' = "except"
    /\ UNCHANGED <<frame_data, exercise_name, reps, analyzed_reps, velocity_loss,
                   tension_result, video, temp_file, files, db_workout, response>>
    /\ UNCHANGED scanVars

\* lines 144-170: the response is built from the committed rows
Respond ==
    /\ pc = "respond"
    /\ LET db_analysis == CHOOSE a \in db.analyses : a.workout_id = db_workout.id
           rep_data == {r \in db.rep_data : r.analysis_id = db_analysis.id}
           high_tension_reps_list ==
               IF db_analysis.high_tension_reps # <<>>
               THEN json_loads(db_analysis.high_tension_reps) ELSE <<>>
           analysis_response ==
               [id                        |-> db_analysis.id,
                workout_id                |-> db_analysis.workout_id,
                tension_score             |-> db_analysis.tension_score,
                high_tension_reps         |-> high_tension_reps_list,
                high_tension_time_seconds |-> db_analysis.high_tension_time_seconds,
                feedback_text             |-> db_analysis.feedback_text,
                raw_metrics               |-> db_analysis.raw_metrics,
                rep_data                  |-> rep_data]
       IN  response' = [status_code |-> 201,
                        detail      |-> <<>>,
                        body        |-> << [workout  |-> db_workout,
                                            analysis |-> analysis_response] >>]
    /\ pc' = "finally"
    /\ UNCHANGED <<frame_data, exercise_name, reps, analyzed_reps, velocity_loss,
                   tension_result, video, temp_file, files, db_workout, db, exc>>
    /\ UNCHANGED scanVars

\* lines 172-181: every exception raised inside the try block is caught, the
\* workout row is deleted if db_workout is bound, and HTTP 500 is raised.
\* models.py 30 and 37: Workout.analysis has no delete cascade and
\* analyses.workout_id is a NOT NULL foreign key, so the delete of a workout
\* that an analysis row refers to is rejected at the commit of line 176; that
\* exception leaves the handler before line 178 and the caller receives the
\* server's plain 500.
HandleException ==
    /\ pc = "except"
    /\ IF db_workout # Unbound /\ \E a \in db.analyses : a.workout_id = db_workout.id
       THEN /\ UNCHANGED db
            /\ response' = ErrorResponse(500, <<"Internal Server Error">>)
       ELSE /\ db' = IF db_workout # Unbound
                     THEN [db EXCEPT !.workouts = @ \ {db_workout}]
                     ELSE db
            /\ response' = ErrorResponse(500, <<"Error processing video: ">> \o Str(exc))
    /\ pc' = "finally"
    /\ UNCHANGED <<frame_data, exercise_name, reps, analyzed_reps, velocity_loss,
                   tension_result, video, temp_file, files, db_workout, exc>>
    /\ UNCHANGED scanVars

\* lines 183-189: the temporary file is unlinked
Finally ==
    /\ pc = "finally"
    /\ IF temp_file # NoFile /\ temp_file \in files
       THEN files' = files \ {temp_file}
       ELSE UNCHANGED files
    /\ pc' = "done"
    /\ UNCHANGED <<frame_data, exercise_name, reps, analyzed_reps, velocity_loss,
                   tension_result, video, temp_file, db_workout, db, exc, response>>
    /\ UNCHANGED scanVars

NextRequest ==
    \/ Validate
    \/ SaveVideo
    \/ CreateWorkout
    \/ ProcessVideo
    \/ SegmentReps
    \/ AnalyzeVelocity
    \/ ScoreTension
    \/ PersistAnalysis
    \/ Respond
    \/ HandleException
    \/ Finally

SpecRequest == InitRequest /\ [][NextRequest]_vars

(***************************************************************************)
(* Properties of the request.                                              *)
(***************************************************************************)
\* the request has ended after segment_reps returned an empty list: the
\* workout row was created, process_video returned frame_data, and
\* segment_reps gives no rep on it
NoRepsRequest ==
    /\ pc = "done"
    /\ db_workout # Unbound
    /\ video.readable
    /\ segment_reps(frame_data, exercise_name) = <<>>

\* C6: when segment_reps returns an empty list inside the analyze_workout
\* request, the caller receives the request-level error, HTTP 400 with the
\* detail 'Could not detect reps in video...', and not the internal-fault
\* response, HTTP 500 'Error processing video...'.
C6_RequestError ==
    NoRepsRequest =>
        /\ response.status_code = 400
        /\ response.detail = <<NoRepsDetail>>

(***************************************************************************)
(* Properties of the analysed reps.                                        *)
(***************************************************************************)
\* analyze_reps has returned
Analyzed == pc \in {"analyzed", "loss", "scored"}

\* the stored velocity series has one value per frame of the rep
VelocityLengths ==
    Analyzed =>
        \A k \in 1..Len(analyzed_reps) :
            Len(analyzed_reps[k].velocities) = Len(analyzed_reps[k].frames)

\* C11: for every analyzed rep, the velocity series stored in the rep (the
\* output of _calculate_velocities, after smoothing) has the same length as
\* the rep's frame slice and its first element is 0.
C11_VelocitySeries ==
    Analyzed =>
        \A k \in 1..Len(analyzed_reps) :
            /\ Len(analyzed_reps[k].velocities) = Len(analyzed_reps[k].frames)
            /\ analyzed_reps[k].velocities[1] = RInt(0)

\* the rep has no frame with a negative smoothed velocity
NoConcentricFrame(rep) ==
    \A j \in 1..Len(rep.velocities) : ~RLt(rep.velocities[j], RInt(0))

\* C12: for every analyzed rep, the sticking region satisfies
\* 0 <= start_frame <= end_frame <= (number of frames in the rep) - 1, and it
\* is {start_frame 0, end_frame 0, time 0} when the rep has no frame with
\* negative smoothed velocity.
C12_StickingRegion ==
    Analyzed =>
        \A k \in 1..Len(analyzed_reps) :
            LET rep == analyzed_reps[k]
                region == rep.sticking_region
            IN  /\ 0 <= region.start_frame
                /\ region.start_frame <= region.end_frame
                /\ region.end_frame <= Len(rep.frames) - 1
                /\ NoConcentricFrame(rep) => region = NoRegion

\* two reps are analysed, one without a concentric frame and one whose
\* sticking region lies inside the rep, after its first frame
C12_Witness ==
    /\ Analyzed
    /\ \E k \in 1..Len(analyzed_reps) : NoConcentricFrame(analyzed_reps[k])
    /\ \E k \in 1..Len(analyzed_reps) :
          /\ ~NoConcentricFrame(analyzed_reps[k])
          /\ analyzed_reps[k].sticking_region.start_frame > 0

(***************************************************************************)
(* Properties of the scorer on the analysed reps of the pipeline.          *)
(***************************************************************************)
\* calculate_tension_score has returned for at least one analysed rep
Scored == pc = "scored" /\ analyzed_reps # <<>>

\* the mean of min(1, 2 * distance) over the frames of the rep's sticking
\* region, start_frame through end_frame inclusive, that carry both leverage
\* joints, and 0.5 when there is no such frame
InclusiveLeverage(rep, name) ==
    LET joints == LeverageJoints(name)
        region == SubSeq(rep.frames, rep.sticking_region.start_frame + 1,
                         rep.sticking_region.end_frame + 1)
        usable == SelectSeq(region,
                            LAMBDA f : HasJoint(f, joints[1]) /\ HasJoint(f, joints[2]))
        values == [k \in 1..Len(usable) |->
                      NormalizedDistance(JointOf(usable[k], joints[1]),
                                         JointOf(usable[k], joints[2]))]
    IN  IF values = <<>> THEN Rat(1, 2) ELSE Mean(values)

\* C13: for each rep, the leverage score is the mean of min(1, 2*distance)
\* over the frames of the rep's sticking region, local indices start_frame
\* through end_frame inclusive, restricted to frames carrying both leverage
\* joints; the score is the default 0.5 only when the region has no frames or
\* no frame of it carries both joints.  A rep without a concentric frame has
\* a region of no frames; a rep with one has a region of at least one frame.
C13_LeverageRegion ==
    Scored =>
        \A k \in 1..Len(analyzed_reps) :
            tension_result.raw_metrics.leverage_scores[k] =
                IF NoConcentricFrame(analyzed_reps[k]) THEN Rat(1, 2)
                ELSE InclusiveLeverage(analyzed_reps[k], exercise_name)

\* C14: for every call of calculate_tension_score with an empty list of
\* analyzed reps, the result is the fixed value: tension_score 0, empty
\* high_tension_reps, high_tension_time_seconds 0 and the 'no reps detected'
\* feedback text, whatever velocity_loss, load and exercise name are.
C14_ZeroReps ==
    (pc = "scored" /\ analyzed_reps = <<>>) =>
        /\ tension_result.tension_score = RInt(0)
        /\ tension_result.high_tension_reps = <<>>
        /\ tension_result.high_tension_time_seconds = RInt(0)
        /\ tension_result.feedback_text = << Sentence("No reps detected in video.", <<>>) >>

\* the scorer has returned for no rep and a velocity_loss list with a loss
\* above the high-tension threshold
C14_Witness ==
    /\ pc = "scored"
    /\ analyzed_reps = <<>>
    /\ \E k \in 1..Len(velocity_loss) : RLt(RInt(30), velocity_loss[k])

\* C15: every result returned by calculate_tension_score, the zero-rep result
\* included, carries a raw_metrics bag in which rep_count equals the number of
\* analyzed reps and in which velocity_loss and leverage_scores each hold
\* exactly one entry per analyzed rep.
C15_RawMetrics ==
    pc = "scored" =>
        /\ "raw_metrics" \in DOMAIN tension_result
        /\ tension_result.raw_metrics.rep_count = Len(analyzed_reps)
        /\ Len(tension_result.raw_metrics.velocity_loss) = Len(analyzed_reps)
        /\ Len(tension_result.raw_metrics.leverage_scores) = Len(analyzed_reps)

\* the bag of a result for at least one rep
RawMetricsOfReps ==
    Scored =>
        /\ "raw_metrics" \in DOMAIN tension_result
        /\ tension_result.raw_metrics.rep_count = Len(analyzed_reps)
        /\ Len(tension_result.raw_metrics.velocity_loss) = Len(analyzed_reps)
        /\ Len(tension_result.raw_metrics.leverage_scores) = Len(analyzed_reps)

(***************************************************************************)
(* Properties of the exercise name.                                        *)
(***************************************************************************)
\* the profile name an exercise name stands for: squat, bench or curl when
\* the name is one of them ignoring case, squat otherwise
Profile(name) ==
    CASE name \in {"squat", "Squat"} -> "squat"
      [] name \in {"bench", "BENCH"} -> "bench"
      [] name \in {"curl", "Curl"}   -> "curl"
      [] OTHER -> "squat"

\* C16: for every exercise name that is not squat, bench or curl ignoring
\* case, segment_reps, analyze_reps and calculate_tension_score return exactly
\* what they return for "squat" on the same input, and names differing only
\* in letter case give identical results.
C16_NameFallback ==
    exercise_name # Profile(exercise_name) =>
        /\ pc = "segmented" => reps = segment_reps(frame_data, Profile(exercise_name))
        /\ pc = "analyzed" => analyzed_reps = analyze_reps(reps, Profile(exercise_name))
        /\ pc = "scored" =>
              \A load_kg \in Loads :
                  tension_result = calculate_tension_score(analyzed_reps, velocity_loss,
                                                           load_kg, Profile(exercise_name))

\* a rep was segmented, analysed and scored under an unrecognized name
C16_Witness ==
    /\ pc = "scored"
    /\ Lower(exercise_name) \notin DOMAIN exercise_configs
    /\ analyzed_reps # <<>>
    /\ analyzed_reps[1].rom # RInt(0)

(***************************************************************************)
(* Properties of the high-tension flags.                                   *)
(***************************************************************************)
\* the rep at position k has a velocity loss above 30
LossAbove30(k) == k <= Len(velocity_loss) /\ RLt(RInt(30), velocity_loss[k])

\* the rep at position k is slower than 20% of the first rep, the first
\* rep's velocity being positive
Below20Percent(k) ==
    LET first == analyzed_reps[1].concentric_velocity
    IN  /\ RLt(RInt(0), first)
        /\ RLt(analyzed_reps[k].concentric_velocity, RMul(Rat(20, 100), first))

\* C17: a rep is in the list returned by _identify_high_tension_reps iff its
\* velocity_loss > 30 or its concentric_velocity is below 20% of the first
\* analyzed rep's, the ratio counting as 1.0 when the first rep's velocity is
\* 0; the returned rep numbers appear in rep order.
C17_HighTension ==
    Scored =>
        LET flagged == tension_result.high_tension_reps
        IN  /\ \A k \in 1..Len(analyzed_reps) :
                  InSeq(analyzed_reps[k].rep_number, flagged)
                      <=> (LossAbove30(k) \/ Below20Percent(k))
            /\ \A a, b \in 1..Len(flagged) : a < b => flagged[a] < flagged[b]
            /\ \A a \in 1..Len(flagged) :
                  \E k \in 1..Len(analyzed_reps) : analyzed_reps[k].rep_number = flagged[a]

\* two reps are scored, the first without concentric movement and unflagged,
\* the second flagged by its loss
C17_Witness ==
    /\ Scored
    /\ Len(analyzed_reps) = 2
    /\ analyzed_reps[1].concentric_velocity = RInt(0)
    /\ RLt(RInt(0), analyzed_reps[2].concentric_velocity)
    /\ tension_result.high_tension_reps = <<2>>

(***************************************************************************)
(* Properties of the angles.                                               *)
(***************************************************************************)
\* the triples of the config, on either side, whose three landmarks the
\* frame carries
AvailableTriples(frame, config) ==
    {<<side \o config.angle_joints[t][1], side \o config.angle_joints[t][2],
       side \o config.angle_joints[t][3]>> :
        side \in {"left_", "right_"}, t \in 1..Len(config.angle_joints)}
    \cap {tr \in Seq(DOMAIN Keypoints(frame.keypoints)) : Len(tr) = 3}

\* the vertex of the triple coincides with its proximal or distal landmark
DegenerateTriple(frame, tr) ==
    LET kp == Keypoints(frame.keypoints)
    IN  kp[tr[2]] = kp[tr[1]] \/ kp[tr[2]] = kp[tr[3]]

\* the frame has a pose and at least one available triple, all degenerate
OnlyDegenerate(frame, config) ==
    /\ frame.has_pose
    /\ HasKeypoints(frame)
    /\ AvailableTriples(frame, config) # {}
    /\ \A tr \in AvailableTriples(frame, config) : DegenerateTriple(frame, tr)

\* C18: in _calculate_angles, a joint triple whose vertex coincides with its
\* proximal or distal landmark is treated as missing: it contributes no angle
\* to the frame's average, so a frame whose only available triples are
\* degenerate yields the missing marker.
C18_DegenerateMissing ==
    pc = "find" =>
        \A k \in 1..Len(frame_data) :
            OnlyDegenerate(frame_data[k], ConfigOf(exercise_name)) => IsNone(angles[k])

(***************************************************************************)
(* Further properties of the scan.                                         *)
(***************************************************************************)
C19_Step ==
    (pc = "scan" /\ i < Len(smoothed) /\ IsNone(smoothed[i + 1])) =>
        /\ SegState' = SegState
        /\ in_rep' = in_rep
        /\ direction' = direction
        /\ rep_start' = rep_start
        /\ reps' = reps

\* C19: a frame whose smoothed angle is missing leaves the segmenter's whole
\* state unchanged: the current state (idle, descending or ascending),
\* rep_start and the list of reps emitted so far are the same after the frame
\* as before it.
C19_MissingFrame == [][C19_Step]_vars

\* a frame with a missing smoothed angle has been passed inside an ascending
\* rep, two or more frames after the rep's first
C19_Witness ==
    /\ pc = "scan"
    /\ i > 0
    /\ IsNone(smoothed[i])
    /\ SegState = "ASCENDING"
    /\ rep_start < i - 2

\* C20: the reps returned by segment_reps are pairwise disjoint and ordered:
\* each rep has start_frame <= end_frame < number of frames, and for
\* consecutive reps the later rep's start_frame is strictly greater than the
\* earlier rep's end_frame; consequently the end-of-sequence guard
\* (rep_start > previous end_frame) never suppresses an open rep.
C20_DisjointOrdered ==
    /\ pc \in {"scan", "segmented"} =>
          /\ \A k \in 1..Len(reps) :
                /\ 0 <= reps[k].start_frame
                /\ reps[k].start_frame <= reps[k].end_frame
                /\ reps[k].end_frame < Len(frame_data)
          /\ \A k \in 1..(Len(reps) - 1) :
                reps[k + 1].start_frame > reps[k].end_frame
    /\ (pc = "scan" /\ i = Len(smoothed) /\ in_rep /\ rep_start # NoneIdx /\ reps # <<>>) =>
          rep_start > reps[Len(reps)].end_frame

\* segment_reps has returned a closed rep followed by the open last rep
C20_Witness ==
    /\ pc = "segmented"
    /\ Len(reps) = 2
    /\ in_rep
    /\ reps[2].start_frame = rep_start
    /\ reps[2].end_frame = Len(frame_data) - 1

(***************************************************************************)
(* Properties of the lengths of the reps.                                  *)
(***************************************************************************)
\* the last rep of reps is the open rep appended after the loop
LastRepOpen ==
    /\ pc # "scan"
    /\ in_rep
    /\ reps # <<>>
    /\ reps[Len(reps)].start_frame = rep_start

\* the rep at position k was closed by the ascent crossing
ClosedRep(k) == k < Len(reps) \/ ~LastRepOpen

\* C21: every rep closed by the ascent crossing spans at least 3 frames (its
\* start, a frame at or below bottom_threshold, a frame at or above
\* top_threshold, at three distinct indices); only the final open rep can
\* have fewer than 2 frames, so analyze_reps drops at most the last segmented
\* rep and never an earlier one.
C21_RepLengths ==
    pc \in {"scan", "segmented", "analyzed", "loss", "scored"} =>
        /\ \A k \in 1..Len(reps) :
              ClosedRep(k) =>
                  /\ Len(reps[k].frames) >= 3
                  /\ \E j \in (reps[k].start_frame + 1)..(reps[k].end_frame - 1) :
                        /\ ~IsNone(smoothed[j + 1])
                        /\ RLe(smoothed[j + 1], ConfigOf(exercise_name).bottom_threshold)
                  /\ RLe(ConfigOf(exercise_name).top_threshold,
                         smoothed[reps[k].end_frame + 1])
        /\ \A k \in 1..(Len(reps) - 1) : Len(reps[k].frames) >= 2
        /\ Analyzed =>
              /\ Len(analyzed_reps) >= Len(reps) - 1
              /\ \A k \in 1..Len(analyzed_reps) :
                    analyzed_reps[k].rep_number = reps[k].rep_number

\* a closed rep is followed by an open rep of one frame, which analyze_reps
\* has dropped
C21_Witness ==
    /\ Analyzed
    /\ Len(reps) = 2
    /\ LastRepOpen
    /\ Len(reps[2].frames) = 1
    /\ Len(analyzed_reps) = 1
    /\ analyzed_reps[1].rep_number = 1

(***************************************************************************)
(* Properties of the flags in the pipeline.                                *)
(***************************************************************************)
\* the scorer was given the output of calculate_velocity_loss on the same
\* analysed reps, as in analyze_workout, lines 103-113
PipelineLoss == Scored /\ velocity_loss = calculate_velocity_loss(analyzed_reps)

\* C22: in the pipeline, where velocity_loss is the output of
\* calculate_velocity_loss on the same analyzed reps, the 20%-of-first-rep
\* clause never flags a rep the loss clause does not: a rep is flagged
\* high-tension iff its velocity_loss > 30, and rep 1 is never flagged.
C22_LossClauseOnly ==
    PipelineLoss =>
        /\ \A k \in 1..Len(analyzed_reps) :
              /\ Below20Percent(k) => LossAbove30(k)
              /\ InSeq(analyzed_reps[k].rep_number, tension_result.high_tension_reps)
                     <=> LossAbove30(k)
        /\ ~InSeq(analyzed_reps[1].rep_number, tension_result.high_tension_reps)

\* in the pipeline, the second of two reps is slower than 20% of the first
\* and is the one rep flagged
C22_Witness ==
    /\ PipelineLoss
    /\ Len(analyzed_reps) = 2
    /\ Below20Percent(2)
    /\ tension_result.high_tension_reps = <<2>>


\* ---------------------------------------------------------------------------
\* C23  cleanup of a request: workout row and temporary file

\* the request ended (the finally block has run)
RequestEnded == pc = "done"

\* the request failed after its workout row was committed at line 84
FailedAfterWorkoutRow == db_workout # Unbound /\ response.status_code # 201

\* the uploaded temporary file is gone when the request ends (lines 183-189);
\* holds on every path of the request
TempFileRemoved == RequestEnded => (temp_file = NoFile \/ temp_file \notin files)

\* a request that failed before its analysis row was committed (extraction
\* error, no reps, failed analysis commit) leaves no workout row; holds
NoAnalysisRow == \A a \in db.analyses : a.workout_id # db_workout.id

WorkoutRowRemovedEarly == (RequestEnded /\ FailedAfterWorkoutRow /\ NoAnalysisRow) => db_workout \notin db.workouts

\* C23: when a request that failed after its workout row was committed ends,
\* that workout row no longer exists; and when any request ends, success or
\* failure, its temporary video file no longer exists.
C23_Cleanup ==
    RequestEnded =>
        /\ FailedAfterWorkoutRow => db_workout \notin db.workouts
        /\ temp_file = NoFile \/ temp_file \notin files

====
